---------------------------- MODULE Spec2Model ----------------------------
(***************************************************************************)
(* A model of the ONNC lowering and pass-dispatch core:                    *)
(*   - AbsLower (lib/Transforms/TensorSel/AbsLower.cpp): isMe / activate   *)
(*   - Attribute, ScalarAttribute, VectorAttribute (IR/Compute/Attributes.h)*)
(*   - UpdateCtablePass::runOnGraphs                                       *)
(*   - the Statistics counter store                                        *)
(*   - Statistics open / read / reset / sync and its destructor            *)
(* Each component has its own specification (SpecLower, SpecDispatch,      *)
(* SpecAttr, SpecPass, SpecCounter, SpecStat); a specification leaves the  *)
(* variables of the other components at their initial values.              *)
(***************************************************************************)
EXTENDS Integers, Sequences, FiniteSets, TLC

VARIABLES
  \* ---- Compute Graph under AbsLower::activate
  nodes,      \* ComputeGraph node sequence (insertion order)
  values,     \* ComputeGraph value table: the set of Value names
  pc,         \* "idle" | "called" | "crashed"
  pNode,      \* the source node activate is running on (NoNode when idle)
  lastRet,    \* what the last activate returned: NoCall, NULL or a node handle
  lastInputs, \* number of inputs of the last activated source node
  \* ---- Lowering dispatcher
  registry,   \* registered rules, in registration order
  dispNode,   \* the source node kind last dispatched (NoKind before)
  selected,   \* index of the rule the last dispatch selected, 0 for none
  activated,  \* indices of the rules whose activate the last dispatch called
  \* ---- Attribute objects
  attrs,      \* sequence of live attribute objects
  \* ---- UpdateCtablePass
  cg,         \* Compute Graph of the pass: sequence of node records
  ppc,        \* "start" | "loop" | "done"
  node,       \* loop iterator (index into cg)
  nEnd,       \* cached end iterator
  visitor,    \* id of the visitor instance of the current run
  acceptLog,  \* accept calls of the current run: <<node index, visitor id>>
  modified,   \* whether the current run changed any node
  cg0,        \* the Compute Graph as it was when the run started
  result,     \* Pass::ReturnType of the last run, NoResult before
  runs,       \* number of runs started
  \* ---- Statistics counters
  counter,    \* group "Counter": name -> int
  desc,       \* group "Counter_Desc": name -> description
  ops,        \* number of counter calls made
  lastCall,   \* record of the last counter call
  \* ---- a Statistics object and the files it may be backed by
  alive,      \* whether the Statistics object exists (constructed, not destroyed)
  m_pGroup,   \* "null" or "group": whether the StatisticsGroup is allocated
  m_AccessMode, \* kReadOnly | kReadWrite
  m_FilePath, \* a path, NoPath when cleared
  m_Value,    \* the JSON value held: "undefined", "object" or "array"
  files,      \* file system: path -> "absent" or the content of the regular file
  lastWrite   \* the path the last call wrote to, NoPath when it wrote nothing

lowerVars == <<nodes, values, pc, pNode, lastRet, lastInputs>>
dispVars  == <<registry, dispNode, selected, activated>>
attrVars  == <<attrs>>
passVars  == <<cg, ppc, node, nEnd, visitor, acceptLog, modified, cg0, result, runs>>
ctrVars   == <<counter, desc, ops, lastCall>>
statVars  == <<alive, m_pGroup, m_AccessMode, m_FilePath, m_Value, files, lastWrite>>
vars      == <<lowerVars, dispVars, attrVars, passVars, ctrVars, statVars>>

----------------------------------------------------------------------------
\* Bounds of the model
MaxNodes    == 2   \* IR nodes a Compute Graph may hold
MaxArity    == 2   \* longest input / output list of a source node
MaxRules    == 3   \* rules registered with the dispatcher
MaxAttrs    == 2   \* live attribute objects
MaxVecLen   == 2   \* longest vector payload
MaxPassLen  == 3   \* nodes of the Compute Graph a pass runs on
MaxRuns     == 2   \* runs of the pass
MaxOps      == 4   \* counter calls

----------------------------------------------------------------------------
\* Common values
NULL    == 0          \* nullptr: a null node handle
NoCall  == NULL - 1    \* no activate call has returned yet: distinct from every handle
NoKind  == "none"
NoNode  == [kind |-> NoKind, inputs |-> <<>>, outputs |-> <<>>]
NullValue == "null"   \* a null Value pointer / the reference made from it

InitLower ==
  /\ nodes = <<>>
  /\ values = {}
  /\ pc = "idle"
  /\ pNode = NoNode
  /\ lastRet = NoCall
  /\ lastInputs = 0

InitDisp ==
  /\ registry = <<>>
  /\ dispNode = NoKind
  /\ selected = 0
  /\ activated = {}

InitAttr == attrs = <<>>

NoResult == "none"

\* the pass has not run: an empty Compute Graph
InitPassIdle ==
  /\ cg = <<>>
  /\ ppc = "start"
  /\ node = 1
  /\ nEnd = 1
  /\ visitor = 0
  /\ acceptLog = <<>>
  /\ modified = FALSE
  /\ cg0 = <<>>
  /\ result = NoResult
  /\ runs = 0

InitCtr ==
  /\ counter = [n \in {} |-> 0]
  /\ desc = [n \in {} |-> ""]
  /\ ops = 0
  /\ lastCall = [op |-> "none", name |-> "", ret |-> FALSE]

\* Statistics::AccessMode
kReadOnly  == "kReadOnly"
kReadWrite == "kReadWrite"

Paths  == {"p", "q"}
NoPath == ""

\* a default-constructed Statistics, Statistics::Statistics()
FreshStatistics ==
  /\ alive = TRUE
  /\ m_pGroup = "null"
  /\ m_AccessMode = kReadOnly
  /\ m_FilePath = NoPath
  /\ m_Value = "undefined"
  /\ lastWrite = NoPath

\* no file exists
InitStatIdle ==
  /\ FreshStatistics
  /\ files = [f \in Paths |-> "absent"]

----------------------------------------------------------------------------
\* Source graph nodes (::onnx::Node) handed to a lowering rule

Names     == {"t0", "t1"}
Symbols   == {"Abs", "Relu"}

\* an ::onnx::Value of the source graph: has_unique_name() and uniqueName()
SrcValues ==
  {[name |-> n, hasName |-> TRUE] : n \in Names}
    \cup {[name |-> "", hasName |-> FALSE]}

SeqsUpTo(S, n) == UNION {[1..k -> S] : k \in 0..n}

SrcNodes ==
  [kind : Symbols,
   inputs : SeqsUpTo(SrcValues, MaxArity),
   outputs : SeqsUpTo(SrcValues, MaxArity)]

----------------------------------------------------------------------------
\* Compute Graph primitives used by the rule

\* ComputeGraph::addOperator<Kind>(): a new node of the kind, without inputs,
\* outputs or attributes, inserted at the end of the node sequence.
addOperator(g, kind) ==
  Append(g, [kind |-> kind, inputs |-> <<>>, outputs |-> <<>>, attrs |-> 0])

\* ComputeGraph::getValue<Tensor>(name): a pointer to the Value of that name,
\* null when the value table has none (the caller dereferences the result).
getValue(vals, name) == IF name \in vals THEN name ELSE NullValue

\* the pointers the two binding loops obtain, in order
Bind(vals, srcVals) ==
  [i \in 1..Len(srcVals) |-> getValue(vals, srcVals[i].name)]

HasNull(refs) == \E i \in 1..Len(refs) : refs[i] = NullValue

\* the references bound before the first null pointer is dereferenced
BeforeNull(refs) ==
  IF ~HasNull(refs) THEN refs
  ELSE LET k == CHOOSE i \in 1..Len(refs) :
                  /\ refs[i] = NullValue
                  /\ \A j \in 1..(i - 1) : refs[j] # NullValue
       IN SubSeq(refs, 1, k - 1)

----------------------------------------------------------------------------
\* AbsLower

AllNamed(srcVals) == \A i \in 1..Len(srcVals) : srcVals[i].hasName

\* mutant: the output list is not validated
Validate_NoOutputCheck(n) ==
  /\ Len(n.inputs) = 1
  /\ AllNamed(n.inputs)

\* AbsLower::activate, "check input/output name"
Validate(n) ==
  /\ Len(n.inputs) = 1
  /\ AllNamed(n.inputs)
  /\ Len(n.outputs) = 1
  /\ AllNamed(n.outputs)

\* AbsLower::activate, "create operators" and "set input/output".
\* Dereferencing a null getValue result is undefined behaviour: the build either
\* stores the null reference in the node and goes on, or the process dies at
\* that point with the node already inserted.
Build(g, vals, n) ==
  LET withOp == addOperator(g, "Abs")
      op     == Len(withOp)
      ins    == Bind(vals, n.inputs)
      outs   == Bind(vals, n.outputs)
      bound  == [withOp EXCEPT ![op].inputs = ins, ![op].outputs = outs]
      dead   == [withOp EXCEPT ![op].inputs = BeforeNull(ins),
                               ![op].outputs =
                                  IF HasNull(ins) THEN <<>> ELSE BeforeNull(outs)]
  IN {[status |-> "returned", ret |-> op, nodes |-> bound]}
       \cup (IF HasNull(ins) \/ HasNull(outs)
             THEN {[status |-> "crashed", ret |-> NoCall, nodes |-> dead]}
             ELSE {})

\* mutant: the operator is created before the checks
activate_CreateFirst(g, vals, n) ==
  IF ~Validate(n)
  THEN {[status |-> "returned", ret |-> NULL, nodes |-> addOperator(g, "Abs")]}
  ELSE Build(g, vals, n)

\* mutant: the node is inserted at the front of the node sequence
activate_Front(g, vals, n) ==
  IF ~Validate(n)
  THEN {[status |-> "returned", ret |-> NULL, nodes |-> g]}
  ELSE {[o EXCEPT !.nodes = <<o.nodes[Len(o.nodes)]>> \o g, !.ret = 1]
          : o \in Build(g, vals, n)}

\* AbsLower::activate: the outcomes of one call
activate(g, vals, n) ==
  IF ~Validate(n)
  THEN {[status |-> "returned", ret |-> NULL, nodes |-> g]}
  ELSE Build(g, vals, n)

----------------------------------------------------------------------------
\* Specification SpecLower: a Compute Graph, its value table, and calls of
\* AbsLower::activate on arbitrary source nodes

othersIdleLower == UNCHANGED <<dispVars, attrVars, passVars, ctrVars, statVars>>

\* ComputeGraph::addValue(name, ...): a tensor is declared in the graph
AddValue(name) ==
  /\ pc = "idle"
  /\ name \notin values
  /\ values' = values \cup {name}
  /\ UNCHANGED <<nodes, pc, pNode, lastRet, lastInputs>>
  /\ othersIdleLower

\* the caller enters activate(pGraph, pNode)
CallActivate ==
  /\ pc = "idle"
  /\ Len(nodes) < MaxNodes
  /\ pc' = "called"
  /\ pNode' \in SrcNodes
  /\ lastRet' = NoCall
  /\ lastInputs' = 0
  /\ UNCHANGED <<nodes, values>>
  /\ othersIdleLower

\* activate runs to its return (or to the crash)
RunActivate ==
  /\ pc = "called"
  /\ \E o \in activate(nodes, values, pNode) :
       /\ nodes' = o.nodes
       /\ lastRet' = o.ret
       /\ pc' = IF o.status = "crashed" THEN "crashed" ELSE "idle"
  /\ lastInputs' = Len(pNode.inputs)
  /\ pNode' = NoNode
  /\ UNCHANGED values
  /\ othersIdleLower

NextLower ==
  \/ \E name \in Names : AddValue(name)
  \/ CallActivate
  \/ RunActivate

InitLowerAll == InitLower /\ InitDisp /\ InitAttr /\ InitPassIdle /\ InitCtr /\ InitStatIdle

SpecLower == InitLowerAll /\ [][NextLower]_vars

----------------------------------------------------------------------------
\* Claims about AbsLower::activate (checked under SpecLower)

\* a step in which the running activate call ends (returns or crashes)
ActivateEnds == pc = "called" /\ pc' # "called"

\* C1: a call to activate that returns null leaves the Compute Graph
\* unchanged: the node sequence and the value table (and so their counts and
\* bindings) are what they were when the call was made.
C1_NullLeavesGraphUnchanged ==
  [][(ActivateEnds /\ pc' = "idle" /\ lastRet' = NULL)
       => (nodes' = nodes /\ values' = values)]_vars

\* a failed activate has returned on a graph that already holds a node and values
C1_Witness ==
  /\ pc = "idle"
  /\ lastRet = NULL
  /\ Len(nodes) > 0
  /\ values # {}

\* exactly one uniquely named input and exactly one uniquely named output
OneNamedInOut(n) ==
  /\ Len(n.inputs) = 1
  /\ Len(n.outputs) = 1
  /\ \A i \in 1..Len(n.inputs) : n.inputs[i].hasName
  /\ \A i \in 1..Len(n.outputs) : n.outputs[i].hasName

\* C2: activate returns null for every source node whose input count or output
\* count is not 1 or that has an input or output without a unique name, and it
\* returns a non-null node only for a node with exactly one uniquely named
\* input and exactly one uniquely named output.
C2_ArityEnforced ==
  [][ActivateEnds =>
       /\ (~OneNamedInOut(pNode) => (pc' = "idle" /\ lastRet' = NULL))
       /\ ((pc' = "idle" /\ lastRet' # NULL) => OneNamedInOut(pNode))]_vars

\* activate has returned null for a source node with two inputs
C2_Witness ==
  /\ pc = "idle"
  /\ lastRet = NULL
  /\ lastInputs = 2

AbsT0T1 ==
  [kind |-> "Abs",
   inputs |-> <<[name |-> "t0", hasName |-> TRUE]>>,
   outputs |-> <<[name |-> "t1", hasName |-> TRUE]>>]

\* C3: activate on {kind Abs, inputs [t0], outputs [t1]} with t0 and t1 declared
\* in the graph appends exactly one node, of kind Abs, at the end of the node
\* sequence, with one input edge bound to Value t0, one output edge bound to
\* Value t1 and zero attributes; the returned handle is that node and the value
\* table is unchanged.
C3_AbsEndToEnd ==
  [][(ActivateEnds /\ pNode = AbsT0T1 /\ {"t0", "t1"} \subseteq values)
       => /\ pc' = "idle"
          /\ nodes' = Append(nodes, [kind |-> "Abs", inputs |-> <<"t0">>,
                                     outputs |-> <<"t1">>, attrs |-> 0])
          /\ lastRet' = Len(nodes')
          /\ values' = values]_vars

\* the Abs node t0 -> t1 has been appended behind an earlier node and returned
C3_Witness ==
  /\ pc = "idle"
  /\ Len(nodes) = 2
  /\ nodes[2] = [kind |-> "Abs", inputs |-> <<"t0">>, outputs |-> <<"t1">>,
                 attrs |-> 0]
  /\ lastRet = 2
  /\ lastInputs = 1
  /\ values = {"t0", "t1"}

\* every input and output Value of every node is in the value table
NoDangling(g, vals) ==
  \A i \in 1..Len(g) :
    /\ \A j \in 1..Len(g[i].inputs) : g[i].inputs[j] \in vals
    /\ \A j \in 1..Len(g[i].outputs) : g[i].outputs[j] \in vals

\* the graph holds a Value for every declared input of the source node
InputsDeclared(n, vals) ==
  \A i \in 1..Len(n.inputs) : n.inputs[i].hasName => n.inputs[i].name \in vals

\* C4: an activate call made on a graph without dangling Value references that
\* holds a Value for every declared input of the source node leaves the graph
\* without dangling Value references when it returns a node, also when the
\* output name has no Value in the graph yet.
C4_NoDanglingValue ==
  [][(ActivateEnds /\ InputsDeclared(pNode, values) /\ NoDangling(nodes, values)
        /\ pc' = "idle" /\ lastRet' # NULL)
       => NoDangling(nodes', values')]_vars

----------------------------------------------------------------------------
\* Lowering rules and the Lowering Dispatcher

\* match levels, an ordered enumeration: NotMe < StandardMatch < CustomMatch
kNotMe      == 0
kStdLower   == 1
kTargetLow  == 2

\* mutant: the symbol comparison is inverted
AbsLower_isMe_Inverted(kind) ==
  IF kind # "Abs" THEN kStdLower ELSE kNotMe

\* AbsLower::isMe
AbsLower_isMe(kind) ==
  IF kind = "Abs" THEN kStdLower ELSE kNotMe

\* a registered rule: the symbol it is keyed on, the level it claims for it, and
\* whether it is the AbsLower of this repository or a rule of a backend
AbsLowerRule == [impl |-> "AbsLower", sym |-> "Abs", level |-> kStdLower]

BackendRules ==
  [impl : {"backend"}, sym : Symbols, level : {kStdLower, kTargetLow}]

Rules == {AbsLowerRule} \cup BackendRules

\* Lower::isMe of a registered rule
isMe(rule, kind) ==
  IF rule.impl = "AbsLower"
  THEN AbsLower_isMe(kind)
  ELSE IF kind = rule.sym THEN rule.level ELSE kNotMe

\* the dispatcher's scan of the registry: the first rule with the highest level
RECURSIVE Scan(_, _, _, _, _)
Scan(reg, kind, i, best, bestLevel) ==
  IF i > Len(reg) THEN best
  ELSE LET score == isMe(reg[i], kind)
       IN IF score > bestLevel
          THEN Scan(reg, kind, i + 1, i, score)
          ELSE Scan(reg, kind, i + 1, best, bestLevel)

\* the rule selected for a node: 0 when no rule returns better than NotMe
lookup(reg, kind) == Scan(reg, kind, 1, 0, kNotMe)

othersIdleDisp == UNCHANGED <<lowerVars, attrVars, passVars, ctrVars, statVars>>

\* a rule is registered; the registry is read-only once dispatch has begun
Register(rule) ==
  /\ dispNode = NoKind
  /\ Len(registry) < MaxRules
  /\ registry' = Append(registry, rule)
  /\ UNCHANGED <<dispNode, selected, activated>>
  /\ othersIdleDisp

\* the dispatcher handles one source node: it selects the rule and activates it
Dispatch(kind) ==
  /\ dispNode' = kind
  /\ selected' = lookup(registry, kind)
  /\ activated' = IF selected' = 0 THEN {} ELSE {selected'}
  /\ UNCHANGED registry
  /\ othersIdleDisp

NextDisp ==
  \/ \E rule \in Rules : Register(rule)
  \/ \E kind \in Symbols : Dispatch(kind)

InitDispAll == InitLower /\ InitDisp /\ InitAttr /\ InitPassIdle /\ InitCtr /\ InitStatIdle

SpecDispatch == InitDispAll /\ [][NextDisp]_vars

\* the level a rule is registered to return for a node kind
ClaimedLevel(rule, kind) == IF rule.sym = kind THEN rule.level ELSE kNotMe

\* C7: after the dispatcher has handled a source node, the selected rule is one
\* returning the highest match level for it (a higher custom level beats the
\* standard level AbsLower returns for Abs, whatever the registration order),
\* the first-registered one among those returning that level, no rule is
\* selected exactly when every rule returns NotMe, and activate was called on
\* no rule returning NotMe.
C7_PriorityResolution ==
  dispNode # NoKind =>
    LET lv(i) == ClaimedLevel(registry[i], dispNode)
        idx   == 1..Len(registry)
    IN /\ (selected = 0) <=> (\A i \in idx : lv(i) = kNotMe)
       /\ selected # 0 =>
            /\ selected \in idx
            /\ \A i \in idx : lv(i) <= lv(selected)
            /\ \A i \in idx : i < selected => lv(i) < lv(selected)
       /\ \A i \in activated : i \in idx /\ lv(i) # kNotMe
       /\ activated \subseteq {selected}

\* AbsLower was registered first, a backend rule claiming Abs at a higher level
\* and a second standard rule for Abs after it, and the backend rule was
\* selected and activated for an Abs node
C7_Witness ==
  /\ dispNode = "Abs"
  /\ Len(registry) = 3
  /\ registry[1] = AbsLowerRule
  /\ registry[2] = [impl |-> "backend", sym |-> "Abs", level |-> kStdLower]
  /\ registry[3] = [impl |-> "backend", sym |-> "Abs", level |-> kTargetLow]
  /\ selected = 3
  /\ activated = {3}

----------------------------------------------------------------------------
\* Attribute model

ScalarClasses == {"FloatAttr", "IntAttr", "StringAttr", "TensorAttr", "GraphAttr"}
VectorClasses == {"FloatsAttr", "IntsAttr", "StringsAttr", "TensorsAttr", "GraphsAttr"}

\* the Attribute::Type each attribute type passes as its Kind template argument
TemplateKind(cls) ==
  CASE cls = "FloatAttr"   -> "kFloat"
    [] cls = "IntAttr"     -> "kInteger"
    [] cls = "StringAttr"  -> "kString"
    [] cls = "TensorAttr"  -> "kTensor"
    [] cls = "GraphAttr"   -> "kGraph"
    [] cls = "FloatsAttr"  -> "kFloat"
    [] cls = "IntsAttr"    -> "kInteger"
    [] cls = "StringsAttr" -> "kString"
    [] cls = "TensorsAttr" -> "kTensor"
    [] cls = "GraphsAttr"  -> "kGraph"

\* payload values of an attribute's ValueType; DefaultValue is ValueType()
PayloadVals  == {0, 1}
DefaultValue == 0
VecPayloads  == SeqsUpTo(PayloadVals, MaxVecLen)

othersIdleAttr == UNCHANGED <<lowerVars, dispVars, passVars, ctrVars, statVars>>

Live == 1..Len(attrs)

\* ScalarAttribute() and ScalarAttribute(const ValueType&)
ConstructScalar(cls, v) ==
  /\ Len(attrs) < MaxAttrs
  /\ attrs' = Append(attrs, [cls |-> cls, kind |-> TemplateKind(cls), payload |-> v])
  /\ othersIdleAttr

\* VectorAttribute(), VectorAttribute(const VectorType&), VectorAttribute(VectorType&&)
ConstructVector(cls, vec) ==
  /\ Len(attrs) < MaxAttrs
  /\ attrs' = Append(attrs, [cls |-> cls, kind |-> TemplateKind(cls), payload |-> vec])
  /\ othersIdleAttr

\* the copy constructors: Attribute(pCopy) takes pCopy.kind(), the payload is copied
CopyConstruct(i) ==
  /\ Len(attrs) < MaxAttrs
  /\ attrs' = Append(attrs, [cls |-> attrs[i].cls, kind |-> attrs[i].kind,
                             payload |-> attrs[i].payload])
  /\ othersIdleAttr

\* ScalarAttribute::setValue
setValue(i, v) ==
  /\ attrs[i].cls \in ScalarClasses
  /\ attrs' = [attrs EXCEPT ![i].payload = v]
  /\ othersIdleAttr

\* mutation through VectorAttribute::vector(): push_back
VectorPushBack(i, v) ==
  /\ attrs[i].cls \in VectorClasses
  /\ Len(attrs[i].payload) < MaxVecLen
  /\ attrs' = [attrs EXCEPT ![i].payload = Append(@, v)]
  /\ othersIdleAttr

\* mutation through VectorAttribute::vector(): clear
VectorClear(i) ==
  /\ attrs[i].cls \in VectorClasses
  /\ attrs' = [attrs EXCEPT ![i].payload = <<>>]
  /\ othersIdleAttr

\* Attribute::operator=, reachable through Attribute& for any two attributes
AttributeAssign(i, j) ==
  /\ attrs' = [attrs EXCEPT ![i].kind = attrs[j].kind]
  /\ othersIdleAttr

\* ScalarAttribute::operator=, between two attributes of the same scalar type
ScalarAssign(i, j) ==
  /\ attrs[i].cls \in ScalarClasses
  /\ attrs[j].cls = attrs[i].cls
  /\ attrs' = [attrs EXCEPT ![i].kind = attrs[j].kind,
                            ![i].payload = attrs[j].payload]
  /\ othersIdleAttr

\* VectorAttribute::operator=, between two attributes of the same vector type
VectorAssign(i, j) ==
  /\ attrs[i].cls \in VectorClasses
  /\ attrs[j].cls = attrs[i].cls
  /\ attrs' = [attrs EXCEPT ![i].kind = attrs[j].kind,
                            ![i].payload = attrs[j].payload]
  /\ othersIdleAttr

NextAttr ==
  \/ \E cls \in ScalarClasses, v \in PayloadVals : ConstructScalar(cls, v)
  \/ \E cls \in VectorClasses, vec \in VecPayloads : ConstructVector(cls, vec)
  \/ \E i \in Live : CopyConstruct(i)
  \/ \E i \in Live, v \in PayloadVals : setValue(i, v)
  \/ \E i \in Live, v \in PayloadVals : VectorPushBack(i, v)
  \/ \E i \in Live : VectorClear(i)
  \/ \E i \in Live, j \in Live : AttributeAssign(i, j)
  \/ \E i \in Live, j \in Live : ScalarAssign(i, j)
  \/ \E i \in Live, j \in Live : VectorAssign(i, j)

InitAttrAll == InitLower /\ InitDisp /\ InitAttr /\ InitPassIdle /\ InitCtr /\ InitStatIdle

SpecAttr == InitAttrAll /\ [][NextAttr]_vars

\* C5: once an Attribute is constructed, kind() returns the same value in every
\* later state, whichever public operation is applied.
C5_KindImmutable ==
  [][\A i \in Live : attrs'[i].kind = attrs[i].kind]_vars

\* the kind the claim gives each of the ten payload shapes
ShapeKind(cls) ==
  CASE cls = "FloatAttr"   -> "kFloat"
    [] cls = "IntAttr"     -> "kInteger"
    [] cls = "StringAttr"  -> "kString"
    [] cls = "TensorAttr"  -> "kTensor"
    [] cls = "GraphAttr"   -> "kGraph"
    [] cls = "FloatsAttr"  -> "kFloatVec"
    [] cls = "IntsAttr"    -> "kIntegerVec"
    [] cls = "StringsAttr" -> "kStringVec"
    [] cls = "TensorsAttr" -> "kTensorVec"
    [] cls = "GraphsAttr"  -> "kGraphVec"

\* C6: every attribute reports the kind of its payload shape (a sequence type
\* its sequence kind), so no two attributes of different shapes report the same
\* kind.
C6_KindDiscriminates ==
  /\ \A i \in Live : attrs[i].kind = ShapeKind(attrs[i].cls)
  /\ \A i \in Live, j \in Live :
       attrs[i].cls # attrs[j].cls => attrs[i].kind # attrs[j].kind

----------------------------------------------------------------------------
\* UpdateCtablePass

PassKinds == {"Abs", "Conv"}

\* Pass::ReturnType
kModuleNoChanged == "kModuleNoChanged"
kModuleChanged   == "kModuleChanged"
kPassFailure     == "kPassFailure"

\* a node of the Compute Graph the pass runs on: its concrete kind and the
\* state the visitor updates
PassNodes == [kind : PassKinds, ctable : {0}]

\* node->accept(visitor): the node's concrete kind selects the visitor method,
\* which updates the node or leaves it as it is
accept(n) == {n, [n EXCEPT !.ctable = 1]}

\* mutant: the loop stops one node early
LoopContinues_StopEarly(it, end) == it + 1 < end

\* the loop condition, node != nEnd
LoopContinues(it, end) == it # end

othersIdlePass == UNCHANGED <<lowerVars, dispVars, attrVars, ctrVars, statVars>>

\* runOnGraphs is entered: the visitor is constructed, pCG.end() is cached and
\* the iterator is set to pCG.begin()
StartRun ==
  /\ ppc \in {"start", "done"}
  /\ runs < MaxRuns
  /\ runs' = runs + 1
  /\ visitor' = runs + 1
  /\ nEnd' = Len(cg) + 1
  /\ node' = 1
  /\ acceptLog' = <<>>
  /\ modified' = FALSE
  /\ cg0' = cg
  /\ ppc' = "loop"
  /\ UNCHANGED <<cg, result>>
  /\ othersIdlePass

\* one iteration of the loop: node->accept(visitor); ++node
LoopStep ==
  /\ ppc = "loop"
  /\ LoopContinues(node, nEnd)
  /\ \E n \in accept(cg[node]) :
       /\ cg' = [cg EXCEPT ![node] = n]
       /\ modified' = (modified \/ n # cg[node])
  /\ acceptLog' = Append(acceptLog, <<node, visitor>>)
  /\ node' = node + 1
  /\ UNCHANGED <<ppc, nEnd, visitor, cg0, result, runs>>
  /\ othersIdlePass

\* the loop is left: return Pass::kModuleChanged
ReturnFromRun ==
  /\ ppc = "loop"
  /\ ~LoopContinues(node, nEnd)
  /\ result' = kModuleChanged
  /\ ppc' = "done"
  /\ UNCHANGED <<cg, node, nEnd, visitor, acceptLog, modified, cg0, runs>>
  /\ othersIdlePass

NextPass ==
  \/ StartRun
  \/ LoopStep
  \/ ReturnFromRun

\* the pass is created for a Compute Graph that lowering has built
InitPass ==
  /\ cg \in SeqsUpTo(PassNodes, MaxPassLen)
  /\ ppc = "start"
  /\ node = 1
  /\ nEnd = 1
  /\ visitor = 0
  /\ acceptLog = <<>>
  /\ modified = FALSE
  /\ cg0 = <<>>
  /\ result = NoResult
  /\ runs = 0

InitPassAll == InitLower /\ InitDisp /\ InitAttr /\ InitPass /\ InitCtr /\ InitStatIdle

SpecPass == InitPassAll /\ [][NextPass]_vars

\* C8: a run of runOnGraphs calls accept once on every node of the Compute
\* Graph, in insertion order, with the one visitor of the run, and on no node
\* twice; the graph keeps its nodes and their kinds.
C8_VisitorDelegation ==
  /\ ppc = "loop" =>
       acceptLog = [i \in 1..(node - 1) |-> <<i, visitor>>]
  /\ ppc = "done" =>
       /\ acceptLog = [i \in 1..Len(cg0) |-> <<i, visitor>>]
       /\ Len(cg) = Len(cg0)
       /\ \A i \in 1..Len(cg) : cg[i].kind = cg0[i].kind

\* a second run over a three-node graph has finished and updated a node
C8_Witness ==
  /\ ppc = "done"
  /\ runs = 2
  /\ Len(cg) = 3
  /\ Len(acceptLog) = 3
  /\ modified

\* C9: the result of a run is one of the three results, it is GraphChanged only
\* when the run modified the Compute Graph, and it is NoChange when the run
\* modified nothing.
C9_ReportsChange ==
  ppc = "done" =>
    /\ result \in {kModuleNoChanged, kModuleChanged, kPassFailure}
    /\ result = kModuleChanged => modified
    /\ ~modified => result = kModuleNoChanged

----------------------------------------------------------------------------
\* Statistics counters (the global statistics' groups Counter and Counter_Desc)

CtrNames  == {"a", "b"}
CtrDescs  == {"no description", "d"}
IncVals   == {1, 2}            \* unsigned int arguments
InitNums  == {0, 5}            \* int arguments of resetCounter

\* StatisticsGroup::hasEntry
hasEntry(group, name) == name \in DOMAIN group

\* StatisticsGroup::writeEntry
writeEntry(group, name, v) ==
  [n \in DOMAIN group \cup {name} |-> IF n = name THEN v ELSE group[n]]

\* StatisticsGroup::readEntry
readEntry(group, name, default) ==
  IF name \in DOMAIN group THEN group[name] ELSE default

othersIdleCtr == UNCHANGED <<lowerVars, dispVars, attrVars, passVars, statVars>>

Called(op, name, ret) ==
  /\ ops < MaxOps
  /\ ops' = ops + 1
  /\ lastCall' = [op |-> op, name |-> name, ret |-> ret]
  /\ othersIdleCtr

\* mutant: the existing-counter check is missing
addCounter_NoGuard(name, d) ==
  /\ counter' = writeEntry(counter, name, 0)
  /\ desc' = writeEntry(desc, name, d)
  /\ Called("addCounter", name, TRUE)

\* Statistics::addCounter(pName, pDesc); addCounter(pName) passes "no description"
addCounter(name, d) ==
  IF hasEntry(counter, name)
  THEN /\ UNCHANGED <<counter, desc>>
       /\ Called("addCounter", name, FALSE)
  ELSE /\ counter' = writeEntry(counter, name, 0)
       /\ desc' = writeEntry(desc, name, d)
       /\ Called("addCounter", name, TRUE)

\* Statistics::increaseCounter (within MaxOps calls of at most 2 the sum stays
\* far inside the range of int)
increaseCounter(name, incNumber) ==
  IF ~hasEntry(counter, name)
  THEN /\ UNCHANGED <<counter, desc>>
       /\ Called("increaseCounter", name, FALSE)
  ELSE /\ counter' = writeEntry(counter, name,
                                readEntry(counter, name, 0) + incNumber)
       /\ UNCHANGED desc
       /\ Called("increaseCounter", name, TRUE)

\* Statistics::decreaseCounter
decreaseCounter(name, decNumber) ==
  IF ~hasEntry(counter, name)
  THEN /\ UNCHANGED <<counter, desc>>
       /\ Called("decreaseCounter", name, FALSE)
  ELSE /\ counter' = writeEntry(counter, name,
                                readEntry(counter, name, 0) - decNumber)
       /\ UNCHANGED desc
       /\ Called("decreaseCounter", name, TRUE)

\* Statistics::resetCounter
resetCounter(name, initNum) ==
  IF ~hasEntry(counter, name)
  THEN /\ UNCHANGED <<counter, desc>>
       /\ Called("resetCounter", name, FALSE)
  ELSE /\ counter' = writeEntry(counter, name, initNum)
       /\ UNCHANGED desc
       /\ Called("resetCounter", name, TRUE)

NextCounter ==
  \/ \E name \in CtrNames, d \in CtrDescs : addCounter(name, d)
  \/ \E name \in CtrNames, k \in IncVals : increaseCounter(name, k)
  \/ \E name \in CtrNames, k \in IncVals : decreaseCounter(name, k)
  \/ \E name \in CtrNames, k \in InitNums : resetCounter(name, k)

InitCounterAll == InitLower /\ InitDisp /\ InitAttr /\ InitPassIdle /\ InitCtr /\ InitStatIdle

SpecCounter == InitCounterAll /\ [][NextCounter]_vars

\* the guards one counter call has to respect
CounterCallGuards ==
  LET c == lastCall'
      had == c.name \in DOMAIN counter
  IN /\ DOMAIN counter' # DOMAIN counter => (c.op = "addCounter" /\ c.ret)
     /\ (c.op = "addCounter" /\ c.ret) =>
          /\ ~had
          /\ DOMAIN counter' = DOMAIN counter \cup {c.name}
          /\ counter'[c.name] = 0
          /\ c.name \in DOMAIN desc'
          /\ \A n \in DOMAIN counter : counter'[n] = counter[n]
     /\ (c.op = "addCounter" /\ had) =>
          (~c.ret /\ counter' = counter /\ desc' = desc)
     /\ (c.op \in {"increaseCounter", "decreaseCounter", "resetCounter"} /\ ~had) =>
          (~c.ret /\ counter' = counter /\ desc' = desc)

\* C10: over any sequence of counter calls, only a successful addCounter
\* creates a counter (value 0, with a description entry of the same name);
\* addCounter on an existing counter returns false and changes neither its value
\* nor its description; increase, decrease and reset of a missing counter return
\* false and change nothing; and every name in group Counter has an entry in
\* group Counter_Desc.
C10_CounterGuards ==
  /\ [](DOMAIN counter \subseteq DOMAIN desc)
  /\ [][ops' = ops + 1 => CounterCallGuards]_vars

\* addCounter was refused for a counter whose value had been changed, and the
\* counter kept that value and its description
C10_Witness ==
  /\ lastCall = [op |-> "addCounter", name |-> "a", ret |-> FALSE]
  /\ "a" \in DOMAIN counter
  /\ counter["a"] = 5
  /\ desc["a"] = "d"
  /\ "b" \notin DOMAIN counter

----------------------------------------------------------------------------
\* Statistics: open, read, reset, sync and the destructor

AccessModes == {kReadOnly, kReadWrite}

\* what a json::Value may hold
ValueKinds == {"undefined", "object", "array"}

\* a path names no file, or a regular file that is empty or holds a JSON object,
\* a legal JSON text that is no object, or an illegal text
FileStates == {"absent", "empty", "object", "array", "illegal"}

\* the strings read() may be given: an invalid StringRef, or a text
Contents == {"invalidRef", "object", "array", "illegal"}

\* is_regular(m_FilePath)
is_regular(fs, path) == path \in Paths /\ fs[path] # "absent"

\* Statistics::isValid
isValid == m_pGroup # "null"

\* json::Reader::parse(path, value): the result and the value it leaves. An
\* illegal text may leave any partially built value.
parse(file, value) ==
  CASE file = "absent"  -> {[result |-> "kCantOpen", value |-> value]}
    [] file = "illegal" -> {[result |-> "kIllegal", value |-> v] : v \in ValueKinds}
    [] file = "empty"   -> {[result |-> "kSuccess", value |-> "undefined"]}
    [] file = "object"  -> {[result |-> "kSuccess", value |-> "object"]}
    [] file = "array"   -> {[result |-> "kSuccess", value |-> "array"]}

\* json::Reader::read(content, value), on a cleared value
readJson(content) ==
  CASE content = "illegal" -> {[ok |-> FALSE, value |-> v] : v \in ValueKinds}
    [] content = "object"  -> {[ok |-> TRUE, value |-> "object"]}
    [] content = "array"   -> {[ok |-> TRUE, value |-> "array"]}

\* the file content m_Value.print() produces
PrintOf(value) == IF value = "undefined" THEN "empty" ELSE value

\* Statistics::sync: the file system it leaves, the path it wrote and its result.
\* The ofstream of a regular file may fail to open.
sync(mode, path, value, fs) ==
  IF mode = kReadWrite /\ is_regular(fs, path)
  THEN {[files |-> fs, wrote |-> NoPath, ret |-> FALSE],
        [files |-> [fs EXCEPT ![path] = PrintOf(value)], wrote |-> path, ret |-> TRUE]}
  ELSE {[files |-> fs, wrote |-> NoPath, ret |-> TRUE]}

othersIdleStat == UNCHANGED <<lowerVars, dispVars, attrVars, passVars, ctrVars>>

\* Statistics::open(pFilePath, pMode); also Statistics(pFilePath, pMode)
Open(path, mode) ==
  /\ alive
  /\ IF isValid
     THEN UNCHANGED <<m_pGroup, m_AccessMode, m_FilePath, m_Value>>
     ELSE /\ m_AccessMode' = mode
          /\ m_FilePath' = path
          /\ \E r \in parse(files[path], m_Value) :
               IF r.result = "kCantOpen"
               THEN m_Value' = r.value /\ m_pGroup' = "null"
               ELSE IF r.result = "kIllegal" \/ r.value = "array"
               THEN m_Value' = r.value /\ m_pGroup' = "null"
               ELSE m_Value' = "object" /\ m_pGroup' = "group"
  /\ lastWrite' = NoPath
  /\ UNCHANGED <<alive, files>>
  /\ othersIdleStat

\* Statistics::read(pContent); also the constructors taking a string
Read(content) ==
  /\ alive
  /\ IF content # "invalidRef" /\ ~isValid
     THEN /\ m_AccessMode' = kReadOnly
          /\ m_FilePath' = NoPath
          /\ \E r \in readJson(content) :
               /\ m_Value' = r.value
               /\ m_pGroup' = IF r.ok /\ r.value = "object" THEN "group" ELSE "null"
     ELSE UNCHANGED <<m_pGroup, m_AccessMode, m_FilePath, m_Value>>
  /\ lastWrite' = NoPath
  /\ UNCHANGED <<alive, files>>
  /\ othersIdleStat

\* Statistics::reset
Reset ==
  /\ alive
  /\ m_pGroup' = "null"
  /\ m_AccessMode' = kReadOnly
  /\ m_FilePath' = NoPath
  /\ m_Value' = "undefined"
  /\ lastWrite' = NoPath
  /\ UNCHANGED <<alive, files>>
  /\ othersIdleStat

\* Statistics::sync
Sync ==
  /\ alive
  /\ \E o \in sync(m_AccessMode, m_FilePath, m_Value, files) :
       /\ files' = o.files
       /\ lastWrite' = o.wrote
  /\ UNCHANGED <<alive, m_pGroup, m_AccessMode, m_FilePath, m_Value>>
  /\ othersIdleStat

\* Statistics::~Statistics: sync(), then delete m_pGroup
Destruct ==
  /\ alive
  /\ \E o \in sync(m_AccessMode, m_FilePath, m_Value, files) :
       /\ files' = o.files
       /\ lastWrite' = o.wrote
  /\ m_pGroup' = "null"
  /\ alive' = FALSE
  /\ UNCHANGED <<m_AccessMode, m_FilePath, m_Value>>
  /\ othersIdleStat

\* Statistics::Statistics(): another Statistics is constructed
Construct ==
  /\ ~alive
  /\ alive' = TRUE
  /\ m_pGroup' = "null"
  /\ m_AccessMode' = kReadOnly
  /\ m_FilePath' = NoPath
  /\ m_Value' = "undefined"
  /\ lastWrite' = NoPath
  /\ UNCHANGED files
  /\ othersIdleStat

NextStat ==
  \/ \E path \in Paths, mode \in AccessModes : Open(path, mode)
  \/ \E content \in Contents : Read(content)
  \/ Reset
  \/ Sync
  \/ Destruct
  \/ Construct

InitStat ==
  /\ FreshStatistics
  /\ files \in [Paths -> FileStates]

InitStatAll == InitLower /\ InitDisp /\ InitAttr /\ InitPassIdle /\ InitCtr /\ InitStat

SpecStat == InitStatAll /\ [][NextStat]_vars

\* C11: a call (sync or the destructor) writes the backing file only when the
\* Statistics is valid, i.e. was successfully opened, and in ReadWrite mode; so a
\* Statistics whose open failed never overwrites that file, and a ReadOnly or
\* string-constructed one writes no file.
C11_WritesOnlyWhenValid ==
  [][lastWrite' # NoPath => (isValid /\ m_AccessMode = kReadWrite)]_vars

============================================================================
